---- MODULE Spec2Model ----
(***************************************************************************)
(* Email-to-invoice ingestion pipeline: the gmail-sync edge function (one  *)
(* invocation = one scan of a user's mailbox) and the classify-document    *)
(* edge function it calls for every retained attachment, over the tables   *)
(* gmail_tokens, processed_emails, invoices and profiles.                  *)
(*                                                                         *)
(* Every action is the code between two awaits of a handler, so that       *)
(* invocations running at the same time interleave at the datastore and    *)
(* external calls exactly where the code can be suspended.                 *)
(***************************************************************************)
EXTENDS Integers, Sequences, FiniteSets, TLC

VARIABLES
    now,               \* wall clock (Date.now()), in abstract ticks
    gmail_tokens,      \* table gmail_tokens: user_id -> row (UNIQUE(user_id))
    profiles,          \* table profiles: id -> [document_count, document_limit]
    processed_emails,  \* table processed_emails: set of rows
    invoices,          \* table invoices: set of rows
    scan,              \* gmail-sync invocations: id -> local state
    classifyCalls,     \* history: requests sent to classify-document
    mailbox,           \* the mail provider: the messages the search matches
    callback           \* requests to the OAuth callback: id -> local state

vars == <<now, gmail_tokens, profiles, processed_emails, invoices, scan,
          classifyCalls, mailbox, callback>>

-----------------------------------------------------------------------------
(* Bounds of the model *)

\* the clock stops at MaxTime
MaxTime == 1
\* documents a user may still add before reaching the limit, at most, in Init
MaxHeadroom == 1
\* parts of a message, at most, where the parts are drawn
MaxParts == 2

(* Program constants *)

\* profiles.document_limit DEFAULT 5
DefaultDocumentLimit == 5
\* messages.slice(0, 20)
BatchSize == 20
\* maxResults=50
PageSize == 50
\* expires_in of a successful token response, in ticks
ExpiresIn == 1

(* Calendar time, for the search query: instants are hours since the epoch *)

\* the latest instant a query is built at
MaxHours == 384
\* 24 * 60 * 60 * 1000 ms: the length of the UTC day toISOString() cuts at
DayHours == 24
\* 7 * 24 * 60 * 60 * 1000 ms
WeekHours == 7 * DayHours
\* setFullYear(getFullYear() - 1), for a year that is not a leap year
YearHours == 365 * DayHours

-----------------------------------------------------------------------------
(* JavaScript / SQL values *)

Undefined == "undefined"
Null == "null"

Users == {"u1", "u2"}

\* the invocations of gmail-sync, named in the order in which they start
Scans == {"s1", "s2"}
Before(o, s) == o = "s1" /\ s = "s2"

\* JavaScript numbers: <<n>> is the number n, <<>> is NaN (what arithmetic
\* on undefined gives)
Num(n) == <<n>>
NaN == <<>>
JsMul(a, b) == IF a # NaN /\ b # NaN THEN Num(a[1] * b[1]) ELSE NaN
JsAdd(a, b) == IF a # NaN /\ b # NaN THEN Num(a[1] + b[1]) ELSE NaN

\* new Date(ms).toISOString(): throws RangeError on an invalid date
ToISOStringThrows(ms) == ms = NaN

\* a TIMESTAMPTZ column as the client returns it: <<h>> is the instant h,
\* <<>> is null (or a field the row does not have)
Timestamp(h) == <<h>>
NullTimestamp == <<>>

\* toISOString().split('T')[0].replace(/-/g, '/'): the UTC calendar date of
\* an instant, as the number of the day
DateStr(h) == h \div DayHours

-----------------------------------------------------------------------------
(* The mail provider: what the search and the message fetch return *)

PdfPart == [mimeType |-> <<"application", "pdf">>, filename |-> "invoice.pdf",
            attachmentId |-> "a1"]
PngPart == [mimeType |-> <<"image", "png">>, filename |-> "scan.png",
            attachmentId |-> "a2"]
TextPart == [mimeType |-> <<"text", "plain">>, filename |-> "note.txt",
             attachmentId |-> "a3"]
InlinePart == [mimeType |-> <<"text", "html">>, filename |-> "",
               attachmentId |-> Undefined]
\* a macOS disk image, application/x-apple-diskimage
DiskImagePart == [mimeType |-> <<"application", "x-apple-disk", "image">>,
                  filename |-> "setup.dmg", attachmentId |-> "a4"]

PartKinds == {PdfPart, PngPart, TextPart, InlinePart, DiskImagePart}

\* a message of the mailbox: what messages/{id} returns
Message(id, parts) == [id |-> id, parts |-> parts]

\* payload.parts of message m
Parts(m) ==
    IF \E k \in 1..Len(mailbox) : mailbox[k].id = m
    THEN mailbox[CHOOSE k \in 1..Len(mailbox) : mailbox[k].id = m].parts
    ELSE <<>>

\* the messages that match the search of a user, in the provider's order:
\* the {id} of every message
Mailbox(u) == [k \in 1..Len(mailbox) |-> mailbox[k].id]

\* mimeType.includes(w): true when w occurs anywhere in the type. A type is
\* kept as its pieces, the part before "/" first, cut so that "pdf" and
\* "image" are whole pieces wherever they occur in it
MimeIncludes(mime, w) == \E k \in 1..Len(mime) : mime[k] = w

\* parts?.filter(part => part.filename && part.body.attachmentId) || []
ExtractAttachments(parts) ==
    SelectSeq(parts, LAMBDA p : p.filename # "" /\ p.attachmentId # Undefined)

\* !mimeType.includes('pdf') && !mimeType.includes('image') -> continue
IsPdfOrImage(att) ==
    MimeIncludes(att.mimeType, "pdf") \/ MimeIncludes(att.mimeType, "image")

\* a slice that keeps every element
SliceAll(msgs, n) == msgs

\* messages.slice(0, 20)
Slice(msgs, n) == SubSeq(msgs, 1, IF Len(msgs) < n THEN Len(msgs) ELSE n)

-----------------------------------------------------------------------------
(* The datastore *)

\* rows of processed_emails with the given key
LedgerRows(u, m) ==
    {r \in processed_emails : r.user_id = u /\ r.gmail_message_id = m}

\* the lookup of a message's row that does not see rows with status error
SelectExistingNotError(u, m) ==
    IF {r \in LedgerRows(u, m) : r.status # "error"} = {} THEN Null
    ELSE (CHOOSE r \in LedgerRows(u, m) : r.status # "error").id

\* .select('id').eq(user_id).eq(gmail_message_id).single(): data, or null
\* when there is no such row
SelectExisting(u, m) ==
    IF LedgerRows(u, m) = {} THEN Null ELSE (CHOOSE r \in LedgerRows(u, m) : TRUE).id

\* INSERT under UNIQUE(user_id, gmail_message_id), with no constraint at all
InsertLedgerNoConstraint(rows, row) == rows \cup {row}

\* INSERT under UNIQUE(user_id, gmail_message_id): a row whose key is taken
\* is rejected and the table is unchanged (the client returns {error}, it
\* does not throw)
InsertLedger(rows, row) ==
    IF \E r \in rows : r.user_id = row.user_id
                       /\ r.gmail_message_id = row.gmail_message_id
    THEN rows
    ELSE rows \cup {row}

\* the row gmail-sync inserts; id stands for gen_random_uuid(): the
\* inserting invocation and the message identify the insert
LedgerRow(s, u, m, status, reason) ==
    [id |-> <<s, m>>, user_id |-> u, gmail_message_id |-> m, status |-> status,
     invoice_id |-> Null, rejection_reason |-> reason]

\* lines 164-168: UPDATE processed_emails SET invoice_id, status
\* WHERE user_id = u AND gmail_message_id = m
LinkLedger(rows, u, m, invoice_id) ==
    {IF r.user_id = u /\ r.gmail_message_id = m
     THEN [r EXCEPT !.invoice_id = invoice_id, !.status = "processed"]
     ELSE r : r \in rows}

\* lines 186-193: UPDATE processed_emails SET status, rejection_reason
\* WHERE user_id = u AND gmail_message_id = m
RejectLedger(rows, u, m, reason) ==
    {IF r.user_id = u /\ r.gmail_message_id = m
     THEN [r EXCEPT !.status = "rejected", !.rejection_reason = reason]
     ELSE r : r \in rows}

\* increment_document_count(user_id_param)
increment_document_count(p, u) ==
    [p EXCEPT ![u].document_count = @ + 1]

-----------------------------------------------------------------------------
(* gmail-sync: one invocation *)

NoResult == [status |-> "none", error |-> Null, processed |-> 0,
             invoices_found |-> 0, total_emails |-> 0]

\* classifyResult of gmail-sync line 184: the body classify-document
\* answered for the attachment the loop handled last, {error} or the verdict
NoClassifyResult == [status |-> "none", error |-> Null, is_invoice |-> FALSE,
                     invoice_id |-> Null]

NoClassification == [is_invoice |-> FALSE, data |-> Undefined,
                     rejection_reason |-> Undefined]

\* the after: term of the search query, with what it was built from
NoQuery == [built |-> FALSE, initial_sync |-> FALSE,
            gmail_last_sync |-> NullTimestamp, at |-> 0, after |-> 0]

IdleScan ==
    [pc |-> "idle", user_id |-> Null, accessToken |-> Null,
     messages |-> <<>>, found |-> 0, i |-> 1, j |-> 1, fetched |-> FALSE,
     processedCount |-> 0, invoiceCount |-> 0, err |-> Null,
     file_data |-> Undefined, classification |-> NoClassification,
     invoice_id |-> Null, classifyResult |-> NoClassifyResult,
     result |-> NoResult, query |-> NoQuery,
     \* history of the invocation
     expiredAtStart |-> FALSE, refresh |-> "none", providerCalled |-> FALSE]

\* the outer catch: Response({error: error.message}, status 500)
Abort(sc, msg) ==
    [sc EXCEPT !.pc = "done", !.accessToken = Null,
               !.result = [NoResult EXCEPT !.status = "error", !.error = msg]]

\* new Date(tokenData.token_expiry) < new Date(), mutated to <=
IsExpiredOrNow(expiry, t) == expiry <= t

\* new Date(tokenData.token_expiry) < new Date()
IsExpired(expiry, t) == expiry < t

\* the credential lookup that finds a row for every user
HasCredentialAlways(tokens, u) == TRUE

\* lines 46-54: .from('gmail_tokens').select('*').eq('user_id').single()
\* gives an error and no data when the user has no row
HasCredential(tokens, u) == u \in DOMAIN tokens

\* lines 34-58: read the request, look the Credential up, test its expiry
Start(s) ==
  \E u \in Users :
    /\ scan[s].pc = "idle"
    /\ \A o \in Scans : Before(o, s) => scan[o].pc # "idle"
    /\ LET sc == [scan[s] EXCEPT !.user_id = u]
       IN  scan' = [scan EXCEPT ![s] =
             IF ~HasCredential(gmail_tokens, u)
             THEN Abort(sc, "Gmail not connected")
             ELSE IF u \notin DOMAIN gmail_tokens
             THEN \* line 57 on a null tokenData: TypeError, to the outer catch
                  Abort(sc, "Cannot read properties of null")
             ELSE LET tokenData == gmail_tokens[u] IN
                  [sc EXCEPT !.expiredAtStart = tokenData.token_expiry < now,
                             !.accessToken = tokenData.access_token,
                             !.pc = IF IsExpired(tokenData.token_expiry, now)
                                    THEN "refresh" ELSE "search"]]
    /\ UNCHANGED <<callback, mailbox, now, gmail_tokens, profiles, processed_emails, invoices,
                   classifyCalls>>

\* what the token endpoint answers a refresh exchange: new token material,
\* an error body ({error, error_description}: no access_token, and an
\* expires_in that is undefined, NaN once multiplied), or no answer at all
\* (fetch or .json() throws)
RefreshResponses ==
    { [kind |-> "ok", access_token |-> "t1", expires_in |-> Num(ExpiresIn)],
      [kind |-> "error", access_token |-> Undefined, expires_in |-> NaN],
      [kind |-> "throw", access_token |-> Undefined, expires_in |-> NaN] }

\* lines 70-81 with an expiry that is written whatever expires_in is
RefreshStepLenient(sc, tokens, t, resp) ==
    IF resp.kind = "throw"
    THEN [sc |-> Abort(sc, "fetch failed"), tokens |-> tokens]
    ELSE [sc |-> [sc EXCEPT !.accessToken = resp.access_token, !.pc = "search"],
          tokens |-> IF sc.user_id \notin DOMAIN tokens THEN tokens ELSE
                     [tokens EXCEPT
              ![sc.user_id].token_expiry =
                  IF resp.expires_in # NaN THEN t + resp.expires_in[1] ELSE t,
              ![sc.user_id].access_token =
                  IF resp.access_token = Undefined THEN @ ELSE resp.access_token]]

\* lines 70-81 with an update that also stores a rotated refresh token
RefreshStepRotates(sc, tokens, t, resp) ==
    IF resp.kind = "throw"
    THEN [sc |-> Abort(sc, "fetch failed"), tokens |-> tokens]
    ELSE LET expiry == JsAdd(Num(t), JsMul(resp.expires_in, Num(1)))
         IN  IF ToISOStringThrows(expiry)
             THEN [sc |-> Abort(sc, "Invalid time value"),
                   tokens |-> tokens]
             ELSE [sc |-> [sc EXCEPT !.accessToken = resp.access_token,
                                     !.pc = "search"],
                   tokens |-> IF sc.user_id \notin DOMAIN tokens THEN tokens ELSE
                     [tokens EXCEPT
                       ![sc.user_id].access_token = resp.access_token,
                       ![sc.user_id].refresh_token = "r1",
                       ![sc.user_id].token_expiry = expiry[1]]]

\* lines 59-81: the refresh exchange and the update of gmail_tokens. The
\* update's argument is built first: toISOString() of an invalid date
\* throws before any write is sent.
RefreshStep(sc, tokens, t, resp) ==
    IF resp.kind = "throw"
    THEN [sc |-> Abort(sc, "fetch failed"), tokens |-> tokens]
    ELSE LET expiry == JsAdd(Num(t), JsMul(resp.expires_in, Num(1)))
         IN  IF ToISOStringThrows(expiry)
             THEN [sc |-> Abort(sc, "Invalid time value"),
                   tokens |-> tokens]
             ELSE [sc |-> [sc EXCEPT !.accessToken = resp.access_token,
                                     !.pc = "search"],
                   tokens |-> IF sc.user_id \notin DOMAIN tokens THEN tokens ELSE
                     [tokens EXCEPT
                       ![sc.user_id].access_token = resp.access_token,
                       ![sc.user_id].token_expiry = expiry[1]]]

Refresh(s) ==
  \E resp \in RefreshResponses :
    /\ scan[s].pc = "refresh"
    /\ LET sc == [scan[s] EXCEPT
                    !.refresh = IF resp.kind = "ok" THEN "ok" ELSE "failed"]
           \* the row may have been deleted meanwhile: the update then
           \* matches nothing
           out == RefreshStep(sc, gmail_tokens, now, resp)
       IN  /\ scan' = [scan EXCEPT ![s] = out.sc]
           /\ gmail_tokens' = out.tokens
    /\ UNCHANGED <<callback, mailbox, now, profiles, processed_emails, invoices,
                   classifyCalls>>

\* the message loop with a catch that rethrows: a message that failed ends
\* the invocation in the outer catch
AfterMessageRethrows(sc) ==
    IF sc.err # Null
    THEN Abort([sc EXCEPT !.j = 1, !.err = Null, !.fetched = FALSE],
               "fetch failed")
    ELSE IF sc.i + 1 > Len(sc.messages)
    THEN [sc EXCEPT !.pc = "sync", !.j = 1, !.err = Null, !.fetched = FALSE,
                    !.classifyResult = NoClassifyResult]
    ELSE [sc EXCEPT !.pc = "check", !.i = @ + 1, !.j = 1, !.err = Null,
                    !.fetched = FALSE,
                    !.classifyResult = NoClassifyResult]

\* where the message loop goes after message i
AfterMessage(sc) ==
    IF sc.i + 1 > Len(sc.messages)
    THEN [sc EXCEPT !.pc = "sync", !.j = 1, !.err = Null, !.fetched = FALSE,
                    !.classifyResult = NoClassifyResult]
    ELSE [sc EXCEPT !.pc = "check", !.i = @ + 1, !.j = 1, !.err = Null,
                    !.fetched = FALSE,
                    !.classifyResult = NoClassifyResult]

\* lines 99-116: search the mailbox; an error body has no messages field
Search(s) ==
  \E outcome \in {"ok", "error", "throw"} :
    /\ scan[s].pc = "search"
    /\ LET sc == [scan[s] EXCEPT !.providerCalled = TRUE]
           messages == IF outcome = "ok"
                       THEN Slice(Mailbox(sc.user_id), PageSize) ELSE <<>>
       IN  scan' = [scan EXCEPT ![s] =
             IF outcome = "throw" THEN Abort(sc, "fetch failed")
             ELSE [sc EXCEPT !.messages = Slice(messages, BatchSize),
                             !.found = Len(messages),
                             !.i = 1,
                             !.pc = IF Slice(messages, BatchSize) = <<>>
                                    THEN "sync" ELSE "check"]]
    /\ UNCHANGED <<callback, mailbox, now, gmail_tokens, profiles, processed_emails, invoices,
                   classifyCalls>>

\* the already-processed check with a lookup that never finds a row
ExistingNever(u, m) == Null

\* lines 119-124: const { data: existing } = select ... .single()
Existing(u, m) == SelectExisting(u, m)

\* lines 118-129: skip the message when its ledger row exists
CheckProcessed(s) ==
    /\ scan[s].pc = "check"
    /\ LET sc == scan[s]
           m == sc.messages[sc.i]
       IN  scan' = [scan EXCEPT ![s] =
             IF Existing(sc.user_id, m) # Null
             THEN AfterMessage(sc)
             ELSE [sc EXCEPT !.pc = "fetch"]]
    /\ UNCHANGED <<callback, mailbox, now, gmail_tokens, profiles, processed_emails, invoices,
                   classifyCalls>>

\* the attachments of the message the invocation is at
Attachments(sc) == ExtractAttachments(Parts(sc.messages[sc.i]))

\* lines 131-146: fetch the full message; a failed fetch (or an error body,
\* whose payload is undefined) throws into the per-message catch. fetched
\* says that fullMessage of the message at hand has been assigned
FetchMessage(s) ==
  \E outcome \in {"ok", "fail"} :
    /\ scan[s].pc = "fetch"
    /\ LET sc == [scan[s] EXCEPT !.providerCalled = TRUE]
       IN  scan' = [scan EXCEPT ![s] =
             IF outcome = "ok"
             THEN [sc EXCEPT !.pc = "attachment", !.j = 1, !.fetched = TRUE]
             ELSE [sc EXCEPT !.pc = "catch", !.err = "fetch failed"]]
    /\ UNCHANGED <<callback, mailbox, now, gmail_tokens, profiles, processed_emails, invoices,
                   classifyCalls>>

\* lines 148-182: one pass of the attachment loop up to the classify call
FetchAttachment(s) ==
  \E outcome \in {"data", "nodata", "throw"} :
    /\ scan[s].pc = "attachment"
    /\ LET sc == scan[s]
           atts == Attachments(sc)
       IN  IF sc.j > Len(atts)
           THEN /\ outcome = "data"
                /\ scan' = [scan EXCEPT ![s] =
                      [sc EXCEPT !.pc = "mark"]]
                /\ UNCHANGED classifyCalls
           ELSE IF ~IsPdfOrImage(atts[sc.j])
           THEN /\ outcome = "data"
                /\ scan' = [scan EXCEPT ![s] =
                      [sc EXCEPT !.j = @ + 1]]
                /\ UNCHANGED classifyCalls
           ELSE IF outcome = "throw"
           THEN /\ scan' = [scan EXCEPT ![s] =
                     [sc EXCEPT !.pc = "catch", !.err = "fetch failed"]]
                /\ UNCHANGED classifyCalls
           ELSE /\ scan' = [scan EXCEPT ![s] =
                     [sc EXCEPT !.pc = "classify",
                                !.file_data = IF outcome = "data" THEN "base64"
                                              ELSE Undefined]]
                /\ classifyCalls' = classifyCalls \cup
                     {[scan |-> s, user_id |-> sc.user_id,
                       gmail_message_id |-> sc.messages[sc.i], j |-> sc.j]}
    /\ UNCHANGED <<callback, mailbox, now, gmail_tokens, profiles, processed_emails, invoices>>

\* lines 193-199: mark the message processed, then go on with the next one
MarkProcessed(s) ==
    /\ scan[s].pc = "mark"
    /\ LET sc == scan[s]
           m == sc.messages[sc.i]
       IN  /\ processed_emails' = InsertLedger(processed_emails,
                   LedgerRow(s, sc.user_id, m, "processed", Null))
           /\ scan' = [scan EXCEPT ![s] = AfterMessage(sc)]
    /\ UNCHANGED <<callback, mailbox, now, gmail_tokens, profiles, invoices, classifyCalls>>

\* lines 201-211: the per-message catch records the message as an error
CatchMessage(s) ==
    /\ scan[s].pc = "catch"
    /\ LET sc == scan[s]
           m == sc.messages[sc.i]
       IN  /\ processed_emails' = InsertLedger(processed_emails,
                   LedgerRow(s, sc.user_id, m, "error", sc.err))
           /\ scan' = [scan EXCEPT ![s] = AfterMessage(sc)]
    /\ UNCHANGED <<callback, mailbox, now, gmail_tokens, profiles, invoices, classifyCalls>>

\* columns of gmail_tokens (migration 20260106140000, lines 12-22)
TokenColumns == {"id", "user_id", "access_token", "refresh_token",
                 "token_expiry", "gmail_email", "created_at", "updated_at"}

\* lines 214-218: update({gmail_last_sync}) on gmail_tokens; an update that
\* names a column the table does not have is refused as a whole
UpdateLastSync(tokens, u, t) ==
    IF "gmail_last_sync" \in TokenColumns /\ u \in DOMAIN tokens
    THEN [tokens EXCEPT ![u].gmail_last_sync = Timestamp(t)]
    ELSE tokens

\* tokenData.gmail_last_sync of the row select('*') returns: undefined when
\* the row has no such field
LastSyncAt(tokens, u) ==
    IF "gmail_last_sync" \in DOMAIN tokens[u]
    THEN tokens[u].gmail_last_sync
    ELSE NullTimestamp

\* lines 214-230: update the last sync time and answer with the summary
Finish(s) ==
    /\ scan[s].pc = "sync"
    /\ LET sc == scan[s]
       IN  /\ gmail_tokens' = UpdateLastSync(gmail_tokens, sc.user_id, now)
           /\ scan' = [scan EXCEPT ![s] =
                [sc EXCEPT !.pc = "done", !.messages = <<>>, !.i = 1, !.j = 1,
                           !.processedCount = 0, !.invoiceCount = 0,
                           !.found = 0, !.accessToken = Null,
                           !.result = [status |-> "success", error |-> Null,
                                       processed |-> sc.processedCount,
                                       invoices_found |-> sc.invoiceCount,
                                       total_emails |-> sc.found]]]
    /\ UNCHANGED <<callback, mailbox, now, profiles, processed_emails, invoices, classifyCalls>>

-----------------------------------------------------------------------------
(* classify-document: one request, made by the invocation that waits for it *)

\* the {error: error.message} body of classify-document's catch (status 500)
ErrorBody(msg) == [NoClassifyResult EXCEPT !.status = "error", !.error = msg]

\* the verdict classify-document answers with, and the invoice id with it
VerdictBody(classification, invoice_id) ==
    [status |-> "verdict", error |-> Null,
     is_invoice |-> classification.is_invoice, invoice_id |-> invoice_id]

\* lines 184-190 of gmail-sync: the response of classify-document is read,
\* the counters move and the attachment loop goes on
AfterClassify(sc, body) ==
    [sc EXCEPT !.invoiceCount = IF body.is_invoice THEN @ + 1 ELSE @,
               !.processedCount = @ + 1,
               !.j = @ + 1,
               !.pc = "attachment",
               !.file_data = Undefined,
               !.classification = NoClassification,
               !.invoice_id = Null,
               !.classifyResult = body]

\* the request an invocation is waiting on
Request(s) ==
    [scan |-> s, user_id |-> scan[s].user_id,
     gmail_message_id |-> scan[s].messages[scan[s].i], j |-> scan[s].j]

\* the document limit check that lets every request through
QuotaNeverReached(profile) == FALSE

\* the document limit check, off by one
QuotaReachedAbove(profile) == profile.document_count > profile.document_limit

\* line 36: profile.document_count >= profile.document_limit
QuotaReached(profile) == profile.document_count >= profile.document_limit

\* lines 18-38: validate the request, read the profile, check the limit
ClassifyStart(s) ==
    /\ scan[s].pc = "classify"
    /\ LET sc == scan[s]
       IN  scan' = [scan EXCEPT ![s] =
             IF sc.file_data = Undefined
             THEN AfterClassify(sc, ErrorBody("Missing required fields"))
             ELSE IF QuotaReached(profiles[sc.user_id])
             THEN AfterClassify(sc, ErrorBody("Document limit reached"))
             ELSE [sc EXCEPT !.pc = "openai"]]
    /\ UNCHANGED <<callback, mailbox, now, gmail_tokens, profiles, processed_emails, invoices,
                   classifyCalls>>

\* what the external classifier answers: an HTTP error, or a completion
\* whose content is or is not the JSON verdict
OpenAIResponses ==
    {[ok |-> FALSE, json |-> FALSE, verdict |-> NoClassification]}
    \cup {[ok |-> TRUE, json |-> FALSE, verdict |-> NoClassification]}
    \cup {[ok |-> TRUE, json |-> TRUE,
           verdict |-> [is_invoice |-> b, data |-> d, rejection_reason |-> r]] :
            b \in BOOLEAN, d \in {"data", Undefined},
            r \in {"purchase order", Undefined}}

\* lines 113-136: read the classifier's answer and parse the verdict
ClassifyOpenAI(s) ==
  \E resp \in OpenAIResponses :
    /\ scan[s].pc = "openai"
    /\ LET sc == scan[s]
       IN  scan' = [scan EXCEPT ![s] =
             IF ~resp.ok THEN AfterClassify(sc, ErrorBody("OpenAI API error"))
             ELSE IF ~resp.json
             THEN AfterClassify(sc, ErrorBody("Invalid response from AI"))
             ELSE IF resp.verdict.is_invoice /\ resp.verdict.data # Undefined
             THEN \* the accept branch never reads rejection_reason
                  [sc EXCEPT !.pc = "insert",
                             !.classification =
                                 [resp.verdict EXCEPT !.rejection_reason = Undefined]]
             ELSE \* the reject branch never reads data
                  [sc EXCEPT !.pc = "reject",
                             !.classification =
                                 [resp.verdict EXCEPT !.data = Undefined]]]
    /\ UNCHANGED <<callback, mailbox, now, gmail_tokens, profiles, processed_emails, invoices,
                   classifyCalls>>

\* lines 137-160: insert the invoice; id stands for the generated key
ClassifyInsertInvoice(s) ==
  \E ok \in BOOLEAN :
    /\ scan[s].pc = "insert"
    /\ LET sc == scan[s]
           req == Request(s)
           id == <<s, req.gmail_message_id, req.j>>
       IN  IF ok
           THEN /\ invoices' = invoices \cup
                      {[id |-> id, user_id |-> sc.user_id]}
                /\ scan' = [scan EXCEPT ![s] =
                      [sc EXCEPT !.pc = "link", !.invoice_id = id]]
           ELSE /\ invoices' = invoices
                /\ scan' = [scan EXCEPT ![s] =
                      AfterClassify(sc, ErrorBody("invoice insert failed"))]
    /\ UNCHANGED <<callback, mailbox, now, gmail_tokens, profiles, processed_emails,
                   classifyCalls>>

\* lines 162-169: link the ledger row of the message to the invoice
ClassifyLink(s) ==
    /\ scan[s].pc = "link"
    /\ LET sc == scan[s]
           req == Request(s)
       IN  /\ processed_emails' =
                 LinkLedger(processed_emails, sc.user_id, req.gmail_message_id,
                            sc.invoice_id)
           /\ scan' = [scan EXCEPT ![s] = [sc EXCEPT !.pc = "increment"]]
    /\ UNCHANGED <<callback, mailbox, now, gmail_tokens, profiles, invoices, classifyCalls>>

\* lines 171-182: count the document and answer with the verdict
ClassifyIncrement(s) ==
    /\ scan[s].pc = "increment"
    /\ LET sc == scan[s]
       IN  /\ profiles' = increment_document_count(profiles, sc.user_id)
           /\ scan' = [scan EXCEPT ![s] =
                 AfterClassify(sc, VerdictBody(sc.classification, sc.invoice_id))]
    /\ UNCHANGED <<callback, mailbox, now, gmail_tokens, processed_emails, invoices,
                   classifyCalls>>

\* lines 184-202: the document is rejected
ClassifyReject(s) ==
    /\ scan[s].pc = "reject"
    /\ LET sc == scan[s]
           req == Request(s)
           reason == IF sc.classification.rejection_reason = Undefined
                     THEN "Not an invoice"
                     ELSE sc.classification.rejection_reason
       IN  /\ processed_emails' =
                 RejectLedger(processed_emails, sc.user_id, req.gmail_message_id,
                              reason)
           /\ scan' = [scan EXCEPT ![s] =
                 AfterClassify(sc, VerdictBody(sc.classification, Null))]
    /\ UNCHANGED <<callback, mailbox, now, gmail_tokens, profiles, invoices, classifyCalls>>

-----------------------------------------------------------------------------
(* gmail-sync: the search query *)

\* lines 86-97: the date of the after: term. In incremental mode
\* lastSync = tokenData.gmail_last_sync || new Date(Date.now() - 7 days)
QueryAfter(initial_sync, gmail_last_sync, t) ==
    IF initial_sync
    THEN DateStr(t - YearHours)
    ELSE LET lastSync == IF gmail_last_sync # NullTimestamp
                         THEN gmail_last_sync[1]
                         ELSE t - WeekHours
         IN  DateStr(lastSync)

\* the instants the query is built at and the values of gmail_last_sync it
\* is built from: a grid of half days
Instants == {h \in 0..MaxHours : h % (DayHours \div 2) = 0}

\* lines 34 and 83-97 for one request {user_id, initial_sync} and one value
\* of tokenData.gmail_last_sync, at the instant now
BuildQuery(s) ==
  \E initial_sync \in BOOLEAN,
     last \in {NullTimestamp} \cup {Timestamp(h) : h \in Instants} :
    /\ \A o \in Scans : ~scan[o].query.built
    /\ last # NullTimestamp => last[1] <= now
    /\ scan' = [scan EXCEPT ![s].query =
                  [built |-> TRUE, initial_sync |-> initial_sync,
                   gmail_last_sync |-> last, at |-> now,
                   after |-> QueryAfter(initial_sync, last, now)]]
    /\ UNCHANGED <<callback, mailbox, now, gmail_tokens, profiles, processed_emails, invoices,
                   classifyCalls>>

-----------------------------------------------------------------------------
(* The OAuth callback (src/unnamed/part_000) *)

Callbacks == {"c1", "c2"}

\* auth.users: the ids gmail_tokens.user_id may refer to
AuthUsers == Users

\* tokens.expires_in || 3600: one hour, the unit of token_expiry
DefaultExpiresIn == 1

NoTokens == [access_token |-> Undefined, refresh_token |-> Undefined,
             expires_in |-> NaN]

\* no request to gmail-sync, and the request of lines 91-98
NoTrigger == [sent |-> FALSE, user_id |-> Null, initial_sync |-> FALSE]
Trigger(state) == [sent |-> TRUE, user_id |-> state, initial_sync |-> TRUE]

\* a callback request that has not arrived
IdleCallback ==
    [pc |-> "idle", code |-> Null, state |-> Null, tokens |-> NoTokens,
     email |-> Undefined, trigger |-> NoTrigger, received |-> FALSE,
     response |-> [status |-> 0, body |-> Null]]

\* lines 103-112: the catch answers 500
Fail(cb, msg) == [cb EXCEPT !.pc = "done", !.response = [status |-> 500, body |-> msg]]

\* lines 17-23: code and state are read from the URL
CallbackRequest(c) ==
  \E code \in {"code", Null}, state \in AuthUsers \cup {"u3", Null} :
    /\ callback[c].pc = "idle"
    /\ LET cb == [callback[c] EXCEPT !.code = code, !.state = state]
       IN  callback' = [callback EXCEPT ![c] =
             IF code = Null \/ state = Null
             THEN Fail(cb, "Missing code or state parameter")
             ELSE [cb EXCEPT !.pc = "exchange"]]
    /\ UNCHANGED <<mailbox, now, gmail_tokens, profiles, processed_emails,
                   invoices, scan, classifyCalls>>

\* what the token endpoint answers the code exchange: token material, with
\* or without a refresh_token and an expires_in, an error status, or no
\* answer at all
ExchangeResponses ==
    {[ok |-> TRUE, tokens |-> [access_token |-> "t1", refresh_token |-> r,
                               expires_in |-> e]] :
        r \in {"r1", Undefined}, e \in {Num(ExpiresIn), NaN}}
    \cup {[ok |-> FALSE, tokens |-> NoTokens]}

\* lines 26-45: the code is exchanged for tokens
CallbackExchange(c) ==
  \E outcome \in {"answer", "throw"}, resp \in ExchangeResponses :
    /\ callback[c].pc = "exchange"
    /\ callback' = [callback EXCEPT ![c] =
          IF outcome = "throw" THEN Fail(@, "fetch failed")
          ELSE IF ~resp.ok THEN Fail(@, "Token exchange failed")
          ELSE [@ EXCEPT !.tokens = resp.tokens, !.pc = "userinfo"]]
    /\ UNCHANGED <<mailbox, now, gmail_tokens, profiles, processed_emails,
                   invoices, scan, classifyCalls>>

\* lines 48-54: the address of the mailbox; the answer is not checked, an
\* error body has no email
CallbackUserinfo(c) ==
  \E outcome \in {"answer", "throw"}, email \in {"u@mail", Undefined} :
    /\ callback[c].pc = "userinfo"
    /\ callback' = [callback EXCEPT ![c] =
          IF outcome = "throw" THEN Fail(@, "fetch failed")
          ELSE [@ EXCEPT !.email = email, !.pc = "upsert"]]
    /\ UNCHANGED <<mailbox, now, gmail_tokens, profiles, processed_emails,
                   invoices, scan, classifyCalls>>

\* lines 57-58: tokenExpiry
TokenExpiry(tokens, t) ==
    t + (IF tokens.expires_in # NaN /\ tokens.expires_in[1] # 0
         THEN tokens.expires_in[1] ELSE DefaultExpiresIn)

\* lines 67-75 against the table of the migration (lines 12-22): the
\* upsert names no conflict target, so the row is inserted with a new id
\* and conflicts are resolved on the primary key only. The insert is
\* refused when a column that is NOT NULL is undefined in the row, when
\* user_id is not a user, when the user has a row already (UNIQUE(user_id)),
\* or when the datastore fails
Upsert(tokens, u, row, fails) ==
    IF fails THEN [error |-> "datastore failure", table |-> tokens]
    ELSE IF \E f \in {"access_token", "refresh_token", "gmail_email"} :
                row[f] = Undefined
    THEN [error |-> "not-null violation", table |-> tokens]
    ELSE IF u \notin AuthUsers
    THEN [error |-> "foreign key violation", table |-> tokens]
    ELSE IF u \in DOMAIN tokens
    THEN [error |-> "unique violation", table |-> tokens]
    ELSE [error |-> Null,
          table |-> [x \in DOMAIN tokens \cup {u} |->
                        IF x = u THEN row ELSE tokens[x]]]

\* line 77: if (tokenError) throw tokenError
AfterUpsert(cb, tokenError) ==
    IF tokenError # Null THEN Fail(cb, tokenError)
    ELSE [cb EXCEPT !.pc = "profile"]

\* lines 57-77: the credential is stored
CallbackUpsert(c) ==
  \E fails \in BOOLEAN :
    /\ callback[c].pc = "upsert"
    /\ LET cb == callback[c]
           row == [access_token |-> cb.tokens.access_token,
                   refresh_token |-> cb.tokens.refresh_token,
                   token_expiry |-> TokenExpiry(cb.tokens, now),
                   gmail_email |-> cb.email]
           res == Upsert(gmail_tokens, cb.state, row, fails)
       IN  /\ gmail_tokens' = res.table
           /\ callback' = [callback EXCEPT ![c] = AfterUpsert(cb, res.error)]
    /\ UNCHANGED <<mailbox, now, profiles, processed_emails, invoices, scan,
                   classifyCalls>>

\* lines 80-86: update({gmail_connected, gmail_email}).eq('id', state); an
\* update that matches no row changes nothing and is no error
UpdateProfile(profs, id, email, fails) ==
    IF fails THEN [error |-> "datastore failure", table |-> profs]
    ELSE [error |-> Null,
          table |-> [x \in DOMAIN profs |->
                        IF x = id
                        THEN [profs[x] EXCEPT !.gmail_connected = TRUE,
                                              !.gmail_email = email]
                        ELSE profs[x]]]

\* lines 88-101 with the check of line 88 left out
AfterProfileUnchecked(cb, profileError) ==
    [cb EXCEPT !.pc = "done",
               !.trigger = Trigger(cb.state),
               !.response = [status |-> 302, body |-> "gmail=connected"]]

\* lines 88-101: if (profileError) throw; the request to gmail-sync is
\* sent and not awaited; the browser is sent back to the app
AfterProfile(cb, profileError) ==
    IF profileError # Null THEN Fail(cb, profileError)
    ELSE [cb EXCEPT !.pc = "done",
                    !.trigger = Trigger(cb.state),
                    !.response = [status |-> 302, body |-> "gmail=connected"]]

\* lines 80-101: the profile is marked connected and the scan is triggered
CallbackProfile(c) ==
  \E fails \in BOOLEAN :
    /\ callback[c].pc = "profile"
    /\ LET cb == callback[c]
           res == UpdateProfile(profiles, cb.state, cb.email, fails)
       IN  /\ profiles' = res.table
           /\ callback' = [callback EXCEPT ![c] = AfterProfile(cb, res.error)]
    /\ UNCHANGED <<mailbox, now, gmail_tokens, processed_emails, invoices,
                   scan, classifyCalls>>

\* gmail-sync, lines 34-97, for the request a callback sent: the request's
\* user_id and initial_sync are read, the credential is looked up and the
\* query is built
Receive(s) ==
  \E c \in Callbacks :
    /\ scan[s].pc = "idle"
    /\ callback[c].trigger.sent
    /\ ~callback[c].received
    /\ LET req == callback[c].trigger
           u == req.user_id
           sc == [scan[s] EXCEPT !.user_id = u]
       IN  scan' = [scan EXCEPT ![s] =
             IF ~HasCredential(gmail_tokens, u)
             THEN Abort(sc, "Gmail not connected")
             ELSE LET tokenData == gmail_tokens[u] IN
                  [sc EXCEPT !.expiredAtStart = tokenData.token_expiry < now,
                             !.accessToken = tokenData.access_token,
                             !.query =
                                [built |-> TRUE,
                                 initial_sync |-> req.initial_sync,
                                 gmail_last_sync |-> LastSyncAt(gmail_tokens, u),
                                 at |-> now,
                                 after |-> QueryAfter(req.initial_sync,
                                              LastSyncAt(gmail_tokens, u), now)],
                             !.pc = IF IsExpired(tokenData.token_expiry, now)
                                    THEN "refresh" ELSE "search"]]
    /\ callback' = [callback EXCEPT ![c].received = TRUE]
    /\ UNCHANGED <<mailbox, now, gmail_tokens, profiles, processed_emails,
                   invoices, classifyCalls>>

-----------------------------------------------------------------------------
(* The specifications *)

\* the next step of the invocation reads the clock: new Date() at line 58,
\* Date.now() at line 78, new Date() at line 217
ReadsClock(s) == scan[s].pc \in {"idle", "refresh", "sync"}

\* time passes; the clock is modelled only where some invocation is about to
\* read it (an advance nobody reads commutes with every other step)
Tick ==
    /\ now < MaxTime
    /\ \E s \in Scans : ReadsClock(s)
    /\ now' = now + 1
    /\ UNCHANGED <<callback, mailbox, gmail_tokens, profiles, processed_emails, invoices, scan,
                   classifyCalls>>

Init ==
    /\ now = 0
    /\ \E e \in 0..1 :
         gmail_tokens = [u \in {"u1"} |->
             [access_token |-> "t0", refresh_token |-> "r0",
              token_expiry |-> e, gmail_email |-> "u1@mail"]]
    /\ \E c \in (DefaultDocumentLimit - MaxHeadroom)..DefaultDocumentLimit :
         profiles = [u \in Users |->
             [document_count |-> IF u = "u1" THEN c ELSE 0,
              document_limit |-> DefaultDocumentLimit]]
    /\ processed_emails = {}
    /\ invoices = {}
    /\ scan = [s \in Scans |-> IdleScan]
    /\ classifyCalls = {}
    /\ callback = [c \in Callbacks |-> IdleCallback]
    /\ mailbox = <<Message("m1", <<InlinePart, PdfPart>>),
                   Message("m2", <<TextPart, PngPart>>)>>

\* an invocation that is running
Active(s) == scan[s].pc \notin {"idle", "done"}

\* invocations of gmail-sync that do not overlap in time
StartAlone(s) ==
    /\ \A o \in Scans : ~Active(o)
    /\ Start(s)

Step(s) ==
    \/ Refresh(s)
    \/ Search(s)
    \/ CheckProcessed(s)
    \/ FetchMessage(s)
    \/ FetchAttachment(s)
    \/ MarkProcessed(s)
    \/ CatchMessage(s)
    \/ Finish(s)
    \/ ClassifyStart(s)
    \/ ClassifyOpenAI(s)
    \/ ClassifyInsertInvoice(s)
    \/ ClassifyLink(s)
    \/ ClassifyIncrement(s)
    \/ ClassifyReject(s)

Next ==
    \/ Tick
    \/ \E s \in Scans : Start(s)
    \/ \E s \in Scans : Step(s)

Spec == Init /\ [][Next]_vars

NextSeq ==
    \/ Tick
    \/ \E s \in Scans : StartAlone(s)
    \/ \E s \in Scans : Step(s)

SpecSeq == Init /\ [][NextSeq]_vars

\* a mailbox of one message more than an invocation handles: the first has
\* a PDF, the others an attachment that is not sent to the classifier
LongMailbox ==
    [k \in 1..(BatchSize + 1) |->
        Message("m" \o ToString(k), IF k = 1 THEN <<PdfPart>> ELSE <<TextPart>>)]

InitRepeat ==
    /\ now = 0
    /\ gmail_tokens = [u \in {"u1"} |->
            [access_token |-> "t0", refresh_token |-> "r0",
             token_expiry |-> MaxTime, gmail_email |-> "u1@mail"]]
    /\ profiles = [u \in Users |->
            [document_count |-> 0, document_limit |-> DefaultDocumentLimit]]
    /\ processed_emails = {}
    /\ invoices = {}
    /\ scan = [s \in Scans |-> IdleScan]
    /\ classifyCalls = {}
    /\ callback = [c \in Callbacks |-> IdleCallback]
    /\ mailbox = LongMailbox

\* the trigger invokes gmail-sync again: a finished invocation is forgotten
\* and its name is used for a new one
Restart(s) ==
    /\ scan[s].pc = "done"
    /\ scan' = [scan EXCEPT ![s] = IdleScan]
    /\ UNCHANGED <<callback, mailbox, now, gmail_tokens, profiles, processed_emails,
                   invoices, classifyCalls>>

\* a step of s in which nothing fails: the user is connected, every call
\* of the mail provider answers with its data, classify-document answers
\* with a verdict
NoFailure(s) ==
    /\ scan'[s].pc # "catch"
    /\ scan'[s].result.status # "error"
    /\ scan'[s].classifyResult.status # "error"
    /\ scan'[s].pc = "classify" => scan'[s].file_data # Undefined
    /\ scan[s].pc = "search"
          => scan'[s].found = Len(Slice(Mailbox(scan[s].user_id), PageSize))

\* the steps of an invocation in which nothing fails
StepRepeat(s) ==
    /\ \/ StartAlone(s)
       \/ Search(s)
       \/ CheckProcessed(s)
       \/ FetchMessage(s)
       \/ FetchAttachment(s)
       \/ MarkProcessed(s)
       \/ Finish(s)
       \/ ClassifyStart(s)
       \/ ClassifyOpenAI(s)
       \/ ClassifyInsertInvoice(s)
       \/ ClassifyLink(s)
       \/ ClassifyIncrement(s)
       \/ ClassifyReject(s)
    /\ NoFailure(s)

NextRepeat ==
    \/ \E s \in Scans : Restart(s)
    \/ \E s \in Scans : StepRepeat(s)

\* gmail-sync invoked again and again, one invocation after the other, with
\* no failure; an invocation that can take a step eventually takes it
SpecRepeat == InitRepeat /\ [][NextRepeat]_vars /\ WF_vars(NextRepeat)

\* time passes while an invocation is running: instants are counted from
\* the start of the first invocation
TickRunning ==
    /\ \E s \in Scans : Active(s)
    /\ Tick

NextFromStart ==
    \/ TickRunning
    \/ \E s \in Scans : StartAlone(s)
    \/ \E s \in Scans : Step(s)

\* invocations that do not overlap, the first one starting at instant 0
SpecFromStart == Init /\ [][NextFromStart]_vars

\* the query builder on its own, at any instant of the grid that is at
\* least a week after the epoch
InitQuery ==
    /\ now \in {h \in Instants : h >= WeekHours}
    /\ gmail_tokens = [u \in {"u1"} |->
            [access_token |-> "t0", refresh_token |-> "r0",
             token_expiry |-> 0, gmail_email |-> "u1@mail"]]
    /\ profiles = [u \in Users |->
            [document_count |-> 0, document_limit |-> DefaultDocumentLimit]]
    /\ processed_emails = {}
    /\ invoices = {}
    /\ scan = [s \in Scans |-> IdleScan]
    /\ classifyCalls = {}
    /\ callback = [c \in Callbacks |-> IdleCallback]
    /\ mailbox = <<Message("m1", <<InlinePart, PdfPart>>),
                   Message("m2", <<TextPart, PngPart>>)>>

\* one message whose parts are drawn from the kinds of parts, for a user
\* one document below the limit whose token expires at the first tick
InitParts ==
    /\ now = 0
    /\ gmail_tokens = [u \in {"u1"} |->
            [access_token |-> "t0", refresh_token |-> "r0",
             token_expiry |-> 0, gmail_email |-> "u1@mail"]]
    /\ profiles = [u \in Users |->
            [document_count |-> IF u = "u1" THEN DefaultDocumentLimit - 1
                                ELSE 0,
             document_limit |-> DefaultDocumentLimit]]
    /\ processed_emails = {}
    /\ invoices = {}
    /\ scan = [s \in Scans |-> IdleScan]
    /\ classifyCalls = {}
    /\ callback = [c \in Callbacks |-> IdleCallback]
    /\ \E n \in 0..MaxParts : \E parts \in [1..n -> PartKinds] :
          mailbox = <<Message("m1", parts)>>

SpecParts == InitParts /\ [][NextSeq]_vars

NextQuery == \E s \in Scans : BuildQuery(s)

SpecQuery == InitQuery /\ [][NextQuery]_vars

\* users without a credential, whose profile is not connected, a year and
\* more after the epoch
InitCallback ==
    /\ now = YearHours
    /\ gmail_tokens = [u \in {} |-> Null]
    /\ profiles = [u \in Users |->
            [document_count |-> 0, document_limit |-> DefaultDocumentLimit,
             gmail_connected |-> FALSE, gmail_email |-> Null]]
    /\ processed_emails = {}
    /\ invoices = {}
    /\ scan = [s \in Scans |-> IdleScan]
    /\ classifyCalls = {}
    /\ callback = [c \in Callbacks |-> IdleCallback]
    /\ mailbox = <<>>

NextCallback ==
    \/ \E c \in Callbacks : CallbackRequest(c)
    \/ \E c \in Callbacks : CallbackExchange(c)
    \/ \E c \in Callbacks : CallbackUserinfo(c)
    \/ \E c \in Callbacks : CallbackUpsert(c)
    \/ \E c \in Callbacks : CallbackProfile(c)
    \/ \E s \in Scans : Receive(s)

\* requests to the OAuth callback, which may overlap, and the invocations
\* of gmail-sync they trigger
SpecCallback == InitCallback /\ [][NextCallback]_vars

-----------------------------------------------------------------------------
(* What the properties below read off a state *)

Messages == {"m1", "m2"}

\* the message invocation s is at
CurrentMessage(s) == scan[s].messages[scan[s].i]

\* rows of a ledger table with the given key
RowsIn(rows, u, m) == {r \in rows : r.user_id = u /\ r.gmail_message_id = m}

\* invoices of a table made from the attachments of message m of user u
InvoicesIn(rows, u, m) == {inv \in rows : inv.user_id = u /\ inv.id[2] = m}

\* requests invocation s sent to classify-document
ClassifyCallsBy(s) == {c \in classifyCalls : c.scan = s}

\* invocations that sent an attachment of message m of user u to the classifier
ClassifiersOf(u, m) ==
    {c.scan : c \in {d \in classifyCalls :
                        d.user_id = u /\ d.gmail_message_id = m}}

\* s is inside the try block of the message it is at, past the
\* already-processed check
Processing(s) ==
    scan[s].pc \in {"fetch", "attachment", "classify", "openai", "insert",
                    "link", "increment", "reject", "mark", "catch"}

\* this step is the ledger insert of invocation s for the message it is at
RecordsMessage(s) ==
    /\ scan[s].pc \in {"mark", "catch"}
    /\ scan'[s].pc \notin {"mark", "catch"}

\* the attachments of message m that are sent to the classifier
Retained(m) == SelectSeq(ExtractAttachments(Parts(m)), IsPdfOrImage)

-----------------------------------------------------------------------------
(* C1 *)

\* C1, first half: in every reachable state there is at most one row of
\* processed_emails per (user_id, gmail_message_id).
C1_AtMostOneRowPerKey ==
    \A u \in Users, m \in Messages : Cardinality(LedgerRows(u, m)) <= 1

\* C1, second half: an insert for a message that already has a row leaves the
\* table as it is, and the invocation goes on with the next message or the
\* summary, with no error result.
C1_RejectedInsertIsBenign ==
    \A s \in Scans :
        RecordsMessage(s) /\ LedgerRows(scan[s].user_id, CurrentMessage(s)) # {}
        => /\ processed_emails' = processed_emails
           /\ scan'[s].pc \in {"check", "sync"}
           /\ scan'[s].result.status = "none"

\* ... and an invocation that reached the end of its message loop answers
\* with the success summary.
C1_LoopEndsInSummary ==
    \A s \in Scans :
        scan[s].pc = "sync" /\ scan'[s].pc # "sync"
        => scan'[s].pc = "done" /\ scan'[s].result.status = "success"

\* C1: at most one LedgerEntry per (userId, providerMessageId) in every
\* reachable state, also with invocations running at the same time; an
\* insert for a message that has a row is rejected and the invocation still
\* completes with its success summary.
C1_UniqueLedgerEntry ==
    /\ []C1_AtMostOneRowPerKey
    /\ [][C1_RejectedInsertIsBenign]_vars
    /\ [][C1_LoopEndsInSummary]_vars

\* an invocation classified a message, finished with the success summary,
\* and the only row of the message is the one another invocation inserted
C1_Witness ==
    \E s \in Scans, o \in Scans, c \in classifyCalls :
        /\ s # o
        /\ c.scan = s
        /\ scan[s].pc = "done"
        /\ scan[s].result.status = "success"
        /\ LedgerRows(c.user_id, c.gmail_message_id) # {}
        /\ \A r \in LedgerRows(c.user_id, c.gmail_message_id) : r.id[1] = o

-----------------------------------------------------------------------------
(* C2 *)

\* C2: with invocations that do not overlap (SpecSeq), the attachments of a
\* message are sent to the classifier by at most one invocation, and an
\* invocation is never past the already-processed check of a message that
\* has a ledger row: it skipped it before the fetch and the classifier.
C2_ClassifiedByOneInvocation ==
    /\ \A u \in Users, m \in Messages : Cardinality(ClassifiersOf(u, m)) <= 1
    /\ \A s \in Scans :
          Processing(s) => LedgerRows(scan[s].user_id, CurrentMessage(s)) = {}

\* the second invocation went through the whole mailbox of a user whose
\* messages the first one had classified, and classified nothing
C2_Witness ==
    /\ scan["s2"].pc = "done"
    /\ scan["s2"].result.status = "success"
    /\ scan["s2"].result.total_emails = 2
    /\ ClassifyCallsBy("s2") = {}
    /\ \A m \in Messages : ClassifiersOf(scan["s2"].user_id, m) = {"s1"}

-----------------------------------------------------------------------------
(* C3 *)

\* C3: at most one row of invoices is created for an attachment of a
\* message, also when two invocations both saw the message unseen.
C3_OneInvoicePerAttachment ==
    \A u \in Users, m \in Messages, j \in 1..2 :
        Cardinality({inv \in InvoicesIn(invoices, u, m) : inv.id[3] = j}) <= 1

-----------------------------------------------------------------------------
(* C4 *)

\* C4: an invocation that found the stored expiry in the past has performed
\* the refresh exchange before its first call of the mail provider (and
\* before anything else after the check); one that found it not in the past
\* performs no refresh exchange.
C4_RefreshIffExpired ==
    \A s \in Scans :
        /\ scan[s].expiredAtStart /\ scan[s].providerCalled
              => scan[s].refresh # "none"
        /\ scan[s].expiredAtStart /\ scan[s].pc # "refresh"
              => scan[s].refresh # "none"
        /\ ~scan[s].expiredAtStart
              => scan[s].refresh = "none" /\ scan[s].pc # "refresh"

\* one invocation found the expiry not in the past and called the provider
\* without a refresh, another found it in the past, refreshed and then
\* called the provider
C4_Witness ==
    \E s \in Scans, o \in Scans :
        /\ ~scan[s].expiredAtStart /\ scan[s].providerCalled
        /\ scan[s].refresh = "none"
        /\ scan[o].expiredAtStart /\ scan[o].providerCalled
        /\ scan[o].refresh = "ok"

-----------------------------------------------------------------------------
(* C5 *)

\* an invocation whose refresh exchange failed is over, with an error
\* result, and has called neither the provider nor the classifier nor
\* inserted a ledger row
C5_FailedRefreshAborts ==
    \A s \in Scans :
        scan[s].refresh = "failed"
        => /\ scan[s].pc = "done"
           /\ scan[s].result.status = "error"
           /\ ~scan[s].providerCalled
           /\ ClassifyCallsBy(s) = {}
           /\ \A r \in processed_emails : r.id[1] # s

\* the step in which the refresh exchange fails writes nothing
C5_FailedRefreshWritesNothing ==
    \A s \in Scans :
        scan[s].refresh = "none" /\ scan'[s].refresh = "failed"
        => UNCHANGED <<callback, mailbox, gmail_tokens, processed_emails, invoices, profiles,
                       classifyCalls>>

\* C5: a failed refresh exchange aborts the invocation with a single error
\* result; no provider call, no ledger insert, no classifier call, and the
\* stored access token and expiry are not overwritten.
C5_RefreshFailureIsFatal ==
    /\ []C5_FailedRefreshAborts
    /\ [][C5_FailedRefreshWritesNothing]_vars

\* a refresh exchange failed
C5_Witness ==
    \E s \in Scans :
        /\ scan[s].refresh = "failed"
        /\ scan[s].result.error = "Invalid time value"

-----------------------------------------------------------------------------
(* C6 *)

\* an invocation that answered "Gmail not connected" is over, with that
\* error as its result, and has called nothing and inserted nothing
C6_NotConnectedAborts ==
    \A s \in Scans :
        scan[s].pc # "idle" /\ scan[s].user_id \notin DOMAIN gmail_tokens
        => /\ scan[s].pc = "done"
           /\ scan[s].result.status = "error"
           /\ scan[s].result.error = "Gmail not connected"
           /\ ~scan[s].providerCalled
           /\ scan[s].refresh = "none"
           /\ ClassifyCallsBy(s) = {}
           /\ \A r \in processed_emails : r.id[1] # s

\* the step that starts an invocation for a user without a row in
\* gmail_tokens changes no table
C6_NotConnectedWritesNothing ==
    \A s \in Scans :
        /\ scan[s].pc = "idle" /\ scan'[s].pc # "idle"
        /\ scan'[s].user_id \notin DOMAIN gmail_tokens
        => UNCHANGED <<callback, mailbox, gmail_tokens, profiles, processed_emails, invoices,
                       classifyCalls>>

\* C6: a scan for a user with no Credential row fails with a single error
\* payload and changes nothing: no provider call, no classifier call, no
\* LedgerEntry, no Invoice, no documentCount change, no lastSyncAt update.
C6_NotConnected ==
    /\ []C6_NotConnectedAborts
    /\ [][C6_NotConnectedWritesNothing]_vars

\* an invocation was started for a user who has no row in gmail_tokens
C6_Witness ==
    \E s \in Scans :
        /\ scan[s].user_id = "u2"
        /\ scan[s].result.error = "Gmail not connected"

-----------------------------------------------------------------------------
(* C7, C8, C9: the ledger row of a message with a single attachment, right *)
(* after the invocation has inserted it. With invocations that do not      *)
(* overlap nothing writes the row afterwards: classify-document updates it *)
(* only while the message is being processed, and later invocations skip   *)
(* the message.                                                            *)

\* the ledger insert of s for a message with exactly one retained attachment
RecordsSingle(s) ==
    /\ RecordsMessage(s)
    /\ Len(Retained(CurrentMessage(s))) = 1

\* C7: after an accepted verdict (is_invoice = true, answered with the id of
\* the invoice made from it) for the single attachment of a message there is
\* exactly one Invoice row for it and exactly one LedgerEntry, with status
\* processed and the invoice's id.
C7_AcceptedIsLinked ==
    [][\A s \in Scans :
          /\ RecordsSingle(s)
          /\ scan[s].classifyResult.status = "verdict"
          /\ scan[s].classifyResult.is_invoice
          /\ scan[s].classifyResult.invoice_id # Null
          => LET u == scan[s].user_id
                 m == CurrentMessage(s)
                 made == InvoicesIn(invoices', u, m)
                 rows == RowsIn(processed_emails', u, m)
             IN  /\ Cardinality(made) = 1
                 /\ Cardinality(rows) = 1
                 /\ \A r \in rows : /\ r.status = "processed"
                                    /\ r.invoice_id # Null
                                    /\ \E inv \in made : r.invoice_id = inv.id
      ]_vars

\* C8: after a rejected verdict (is_invoice = false) for the single
\* attachment of a message its LedgerEntry has status rejected and a reason,
\* and there is no Invoice row for it.
C8_RejectedIsRecorded ==
    [][\A s \in Scans :
          /\ RecordsSingle(s)
          /\ scan[s].classifyResult.status = "verdict"
          /\ ~scan[s].classifyResult.is_invoice
          => LET u == scan[s].user_id
                 m == CurrentMessage(s)
                 rows == RowsIn(processed_emails', u, m)
             IN  /\ InvoicesIn(invoices', u, m) = {}
                 /\ Cardinality(rows) = 1
                 /\ \A r \in rows : /\ r.status = "rejected"
                                    /\ r.rejection_reason # Null
      ]_vars

\* C9: after a classifier answer that is not the JSON verdict the
\* LedgerEntry of the message has status error and the parse failure as its
\* reason, and there is no Invoice row for the attachment.
C9_UnparsableIsError ==
    [][\A s \in Scans :
          /\ RecordsSingle(s)
          /\ scan[s].classifyResult.error = "Invalid response from AI"
          => LET u == scan[s].user_id
                 m == CurrentMessage(s)
                 rows == RowsIn(processed_emails', u, m)
             IN  /\ InvoicesIn(invoices', u, m) = {}
                 /\ Cardinality(rows) = 1
                 /\ \A r \in rows : /\ r.status = "error"
                                    /\ r.rejection_reason = "Invalid response from AI"
      ]_vars

-----------------------------------------------------------------------------
(* C10 *)

\* C10: a classification request (one that carries its required fields)
\* handled while document_count >= document_limit is answered with the
\* limit error by the step that reads the profile: it never gets to the
\* call of the external classifier, inserts no invoice and leaves
\* document_count as it is.
C10_QuotaBlocksClassifier ==
    [][\A s \in Scans :
          /\ scan[s].pc = "classify" /\ scan'[s].pc # "classify"
          /\ scan[s].file_data # Undefined
          /\ profiles[scan[s].user_id].document_count
                >= profiles[scan[s].user_id].document_limit
          => /\ scan'[s].pc = "attachment"
             /\ scan'[s].classifyResult.status = "error"
             /\ scan'[s].classifyResult.error = "Document limit reached"
             /\ invoices' = invoices
             /\ profiles' = profiles
      ]_vars

\* a request was refused for the document limit
C10_Witness ==
    \E s \in Scans :
        /\ scan[s].classifyResult.error = "Document limit reached"
        /\ profiles[scan[s].user_id].document_count
              >= profiles[scan[s].user_id].document_limit

-----------------------------------------------------------------------------
(* C11 *)

\* C11: when the single attachment of a message was refused by
\* classify-document for the document limit (document_count >=
\* document_limit), the row gmail-sync then writes for the message does not
\* have status processed.
C11_QuotaRefusalNotProcessed ==
    [][\A s \in Scans :
          /\ RecordsSingle(s)
          /\ scan[s].classifyResult.error = "Document limit reached"
          => \A r \in RowsIn(processed_emails', scan[s].user_id,
                             CurrentMessage(s)) : r.status # "processed"
      ]_vars

-----------------------------------------------------------------------------
(* C12 *)

\* this step is the answer of classify-document to the request of s
Answers(s) ==
    /\ scan[s].pc \in {"classify", "openai", "insert", "link", "increment",
                       "reject"}
    /\ scan'[s].pc = "attachment"

\* C12: with invocations that do not overlap, the step in which
\* classify-document answers a request moves the user's document_count by
\* one when the verdict has is_invoice = true and leaves it alone when the
\* answer is a rejection or an error, and no other step changes it.
C12_CountFollowsIsInvoice ==
    [][\A u \in Users :
          profiles'[u].document_count = profiles[u].document_count +
              (IF \E s \in Scans : /\ Answers(s)
                                   /\ scan[s].user_id = u
                                   /\ scan'[s].classifyResult.is_invoice
               THEN 1 ELSE 0)
      ]_vars

-----------------------------------------------------------------------------
(* C13 *)

\* the later of two instants
Later(a, b) == IF a >= b THEN a ELSE b

-----------------------------------------------------------------------------
(* C14 *)

\* the part a request to classify-document was made for
ClassifiedPart(c) == ExtractAttachments(Parts(c.gmail_message_id))[c.j]

\* a part the filter is meant to keep: it has a filename and an attachment
\* id, and its type is application/pdf or image/*
IsInvoiceCandidate(p) ==
    /\ p.filename # ""
    /\ p.attachmentId # Undefined
    /\ \/ p.mimeType = <<"application", "pdf">>
       \/ p.mimeType[1] = "image"

\* C14: every part whose payload is fetched and sent to the classifier has a
\* filename and an attachment id and is of type application/pdf or image/*,
\* and an invocation that has gone through a message without an error has
\* sent every such part of it.
C14_OnlyPdfAndImageParts ==
    /\ \A c \in classifyCalls : IsInvoiceCandidate(ClassifiedPart(c))
    /\ \A s \in Scans :
          scan[s].pc = "mark"
          => \A k \in 1..Len(Parts(CurrentMessage(s))) :
                IsInvoiceCandidate(Parts(CurrentMessage(s))[k])
                => \E c \in ClassifyCallsBy(s) :
                      ClassifiedPart(c) = Parts(CurrentMessage(s))[k]

-----------------------------------------------------------------------------
(* C15 *)

\* invocation s sent attachment k of message m to the classifier
Submitted(s, m, k) ==
    \E c \in ClassifyCallsBy(s) : c.gmail_message_id = m /\ c.j = k

\* C15: when an invocation is done with a message it had fetched and writes
\* the ledger row, every retained attachment of the message has been
\* fetched and sent to the classifier by it, except one whose payload fetch
\* failed (on the catch path j is the attachment the loop was at).
C15_SiblingsAreStillSubmitted ==
    [][\A s \in Scans :
          RecordsMessage(s) /\ scan[s].fetched
          => LET m == CurrentMessage(s)
                 atts == ExtractAttachments(Parts(m))
             IN  \A k \in 1..Len(atts) :
                    IsPdfOrImage(atts[k]) /\ k # scan[s].j
                    => Submitted(s, m, k)
      ]_vars

-----------------------------------------------------------------------------
(* C16 *)

\* the positions of an invocation inside its message loop
LoopPcs == {"check", "fetch", "attachment", "classify", "openai", "insert",
            "link", "increment", "reject", "mark", "catch"}

\* a step of an invocation that is in its message loop keeps it in the loop
\* or takes it to the end of the loop, with no result yet; the loop goes
\* from a message to the next one only, and ends after the last one
C16_LoopGoesOn ==
    \A s \in Scans :
        scan[s].pc \in LoopPcs
        => /\ scan'[s].pc \in LoopPcs \cup {"sync"}
           /\ scan'[s].result = NoResult
           /\ scan'[s].messages = scan[s].messages
           /\ \/ scan'[s].i = scan[s].i
              \/ scan'[s].i = scan[s].i + 1 /\ scan'[s].pc = "check"
           /\ scan'[s].pc = "sync" => scan[s].i = Len(scan[s].messages)

\* every message of the batch before the one the invocation is at has its
\* ledger row, and every message of the batch once the loop has ended
C16_EarlierMessagesRecorded ==
    \A s \in Scans :
        scan[s].pc \in LoopPcs \cup {"sync"}
        => \A k \in 1..Len(scan[s].messages) :
              k < scan[s].i \/ scan[s].pc = "sync"
              => LedgerRows(scan[s].user_id, scan[s].messages[k]) # {}

\* the step after the loop answers with the success summary and the counts
C16_SummaryHasCounts ==
    \A s \in Scans :
        scan[s].pc = "sync" /\ scan'[s].pc # "sync"
        => /\ scan'[s].pc = "done"
           /\ scan'[s].result = [status |-> "success", error |-> Null,
                                 processed |-> scan[s].processedCount,
                                 invoices_found |-> scan[s].invoiceCount,
                                 total_emails |-> scan[s].found]

\* C16: a message that fails (message fetch or attachment fetch throwing,
\* classify-document answering with an error) does not end the invocation:
\* the loop goes on with the next message until the batch is done, every
\* message of the batch gets its ledger row, and the invocation answers
\* with the success summary and its counts.
C16_MessageFailureIsLocal ==
    /\ []C16_EarlierMessagesRecorded
    /\ [][C16_LoopGoesOn]_vars
    /\ [][C16_SummaryHasCounts]_vars

\* an invocation recorded the first message of its batch as an error, went
\* through the second one and answered with the success summary
C16_Witness ==
    \E s \in Scans :
        /\ scan[s].pc = "done"
        /\ scan[s].result.status = "success"
        /\ scan[s].result.total_emails = 2
        /\ \E r \in processed_emails : r.id = <<s, "m1">> /\ r.status = "error"
        /\ \E r \in processed_emails : r.id = <<s, "m2">>

-----------------------------------------------------------------------------
(* C17 *)

\* C17: when the invoice insert failed for the single attachment of a
\* message, the answer of classify-document leaves document_count as it was,
\* and the row the invocation then writes for the message (which nothing
\* changes afterwards) has status error and the failure as its reason.
C17_InsertFailureIsError ==
    [][\A s \in Scans :
          /\ Answers(s) /\ scan'[s].classifyResult.error = "invoice insert failed"
                => profiles' = profiles
          /\ RecordsSingle(s)
             /\ scan[s].classifyResult.error = "invoice insert failed"
                => LET rows == RowsIn(processed_emails', scan[s].user_id,
                                      CurrentMessage(s))
                   IN  /\ Cardinality(rows) = 1
                       /\ \A r \in rows :
                             /\ r.status = "error"
                             /\ r.rejection_reason = "invoice insert failed"
      ]_vars

-----------------------------------------------------------------------------
(* C18 *)

\* requests of user u that have passed the document limit check and have
\* not yet counted their document
PassedCheck(u) ==
    {s \in Scans : /\ scan[s].user_id = u
                   /\ scan[s].pc \in {"openai", "insert", "link", "increment"}}

\* C18: the limit is soft. document_count can pass document_limit, but only
\* by requests that passed the check while it was below the limit: the
\* count and the requests past the check together never exceed the limit by
\* more than the number of invocations racing minus one (the headroom there
\* was when they passed the check).
C18_QuotaIsSoft ==
    \A u \in Users :
        profiles[u].document_count + Cardinality(PassedCheck(u))
            <= profiles[u].document_limit + Cardinality(Scans) - 1

\* two requests of a user passed the check before either counted, and the
\* count ended above the limit
C18_Witness ==
    \E u \in Users :
        /\ profiles[u].document_count > profiles[u].document_limit
        /\ \E s \in Scans, o \in Scans :
              /\ s # o
              /\ scan[s].user_id = u /\ scan[o].user_id = u
              /\ scan[s].classifyResult.invoice_id # Null
              /\ scan[o].classifyResult.invoice_id # Null

-----------------------------------------------------------------------------
(* C19 *)

\* C19: in SpecFromStart the first invocation, s1, starts at instant 0.
\* When it has finished its message loop and answers, gmail_last_sync of
\* the user's row in gmail_tokens is the instant it started at, 0, also
\* when the clock has moved on since.
C19_LastSyncIsScanStart ==
    [][scan["s1"].pc = "sync" /\ scan'["s1"].pc = "done"
       => LastSyncAt(gmail_tokens', scan["s1"].user_id) = Timestamp(0)
      ]_vars

-----------------------------------------------------------------------------
(* C20 *)

\* C20: with gmail-sync invoked again and again and nothing failing, every
\* message the search returns eventually has a row in processed_emails,
\* also those beyond the first BatchSize messages of the result.
C20_EveryCandidateIsRecorded ==
    <>(\A k \in 1..Len(Slice(Mailbox("u1"), PageSize)) :
          LedgerRows("u1", Mailbox("u1")[k]) # {})

-----------------------------------------------------------------------------
(* C21 *)

\* C21: the step in which an invocation's refresh exchange succeeds writes
\* the new access token and the new expiry into the user's row of
\* gmail_tokens and nothing else: refresh_token, gmail_email and
\* gmail_last_sync of the row are what they were, no row is added or
\* removed, and the rows of other users are untouched.
C21_RefreshKeepsTheRest ==
    [][\A s \in Scans :
          scan[s].refresh = "none" /\ scan'[s].refresh = "ok"
          => LET u == scan[s].user_id
             IN  /\ DOMAIN gmail_tokens' = DOMAIN gmail_tokens
                 /\ gmail_tokens'[u].refresh_token = gmail_tokens[u].refresh_token
                 /\ gmail_tokens'[u].gmail_email = gmail_tokens[u].gmail_email
                 /\ LastSyncAt(gmail_tokens', u) = LastSyncAt(gmail_tokens, u)
                 /\ gmail_tokens'[u].access_token = scan'[s].accessToken
                 /\ gmail_tokens'[u].token_expiry = now + ExpiresIn
                 /\ \A o \in DOMAIN gmail_tokens \ {u} :
                       gmail_tokens'[o] = gmail_tokens[o]
      ]_vars

\* a refresh exchange succeeded: the row holds the new access token and the
\* refresh token it held before
C21_Witness ==
    \E s \in Scans :
        /\ scan[s].refresh = "ok"
        /\ gmail_tokens[scan[s].user_id].access_token = "t1"
        /\ gmail_tokens[scan[s].user_id].refresh_token = "r0"

-----------------------------------------------------------------------------
(* C22 *)

\* the invoice row made for the request of s, if there is one
InvoiceOf(rows, s) ==
    {inv \in rows : inv.id = <<s, CurrentMessage(s), scan[s].j>>}

\* C22: when classify-document answers a request with the verdict, an
\* invoice row has been made for the attachment if the verdict's is_invoice
\* is true and none if it is false, whatever data and rejection_reason the
\* verdict carries.
C22_InvoiceIffIsInvoice ==
    [][\A s \in Scans :
          Answers(s) /\ scan'[s].classifyResult.status = "verdict"
          => (scan'[s].classifyResult.is_invoice
                <=> InvoiceOf(invoices', s) # {})
      ]_vars

-----------------------------------------------------------------------------
(* C23 *)

\* C23: with invocations that do not overlap, a row of processed_emails
\* with status error stays as it is, no request for an attachment of its
\* message is sent to classify-document any more, and no invocation gets
\* past the already-processed check of its message.
C23_ErrorIsNeverRetried ==
    [][\A r \in processed_emails :
          r.status = "error"
          => /\ r \in processed_emails'
             /\ \A c \in classifyCalls' \ classifyCalls :
                   ~(c.user_id = r.user_id
                     /\ c.gmail_message_id = r.gmail_message_id)
             /\ \A s \in Scans :
                   scan'[s].pc \in LoopPcs \ {"check"}
                   => ~(scan'[s].user_id = r.user_id
                        /\ scan'[s].messages[scan'[s].i] = r.gmail_message_id)
      ]_vars

\* the first invocation recorded m1 as an error; the second one went through
\* the mailbox, sent nothing of m1 to the classifier and left the row alone
C23_Witness ==
    /\ scan["s2"].pc = "done"
    /\ scan["s2"].result.status = "success"
    /\ scan["s2"].result.total_emails = 2
    /\ \E r \in processed_emails : r.id = <<"s1", "m1">> /\ r.status = "error"
    /\ \A c \in ClassifyCallsBy("s2") : c.gmail_message_id # "m1"

-----------------------------------------------------------------------------
(* C24 *)

\* C24: the effects of an accepted attachment come in a fixed order. When
\* the ledger update is made the invoice row exists and the count has not
\* moved; when document_count is incremented the invoice row exists and the
\* message's row in processed_emails has status processed and the
\* invoice's id; and document_count moves in no other step.
C24_InvoiceThenLedgerThenCount ==
    [][/\ \A s \in Scans :
            scan[s].pc = "link" /\ scan'[s].pc # "link"
            => /\ InvoiceOf(invoices, s) # {}
               /\ profiles' = profiles
       /\ \A s \in Scans :
            scan[s].pc = "increment" /\ scan'[s].pc # "increment"
            => /\ InvoiceOf(invoices, s) # {}
               /\ \E r \in LedgerRows(scan[s].user_id, CurrentMessage(s)) :
                     r.status = "processed" /\ r.invoice_id = scan[s].invoice_id
       /\ profiles' # profiles
            => \E s \in Scans : scan[s].pc = "increment" /\ scan'[s].pc # "increment"
      ]_vars

-----------------------------------------------------------------------------
(* C25 *)

\* C25: the row of a message in processed_emails is created once, by the
\* step that ends the message's attachment loop: before it the message has
\* no row, after it exactly one; it is made after the last attachment has
\* been handled, or by the catch of a failed loop; and its status is the
\* loop's outcome: error exactly when the loop failed, and processed only
\* when an attachment of the message was made an invoice or none was
\* submitted.
C25_RowIsTheLoopOutcome ==
    [][\A s \in Scans :
          RecordsMessage(s)
          => LET u == scan[s].user_id
                 m == CurrentMessage(s)
                 submitted == {c \in ClassifyCallsBy(s) : c.gmail_message_id = m}
                 rows == RowsIn(processed_emails', u, m)
             IN  /\ RowsIn(processed_emails, u, m) = {}
                 /\ Cardinality(rows) = 1
                 /\ scan[s].pc = "mark" => scan[s].j > Len(Attachments(scan[s]))
                 /\ \A r \in rows :
                       /\ r.status = "error" <=> scan[s].pc = "catch"
                       /\ r.status = "processed"
                          => \/ InvoicesIn(invoices, u, m) # {}
                             \/ submitted = {}
      ]_vars

-----------------------------------------------------------------------------
(* C26 *)

\* rows of processed_emails written by invocation s
RowsBy(s) == {r \in processed_emails : r.id[1] = s}

\* C26: the messages an invocation examines are the first 20 at most of
\* those the search returned, in the search's order: the list is a prefix
\* of the mailbox no longer than 20, the loop index moves forward one
\* message at a time, every row an invocation inserts is for the message at
\* the index, and an invocation has at most 20 rows.
C26_AtMostTwentyInSearchOrder ==
    /\ [](\A s \in Scans :
             /\ Len(scan[s].messages) <= BatchSize
             /\ scan[s].user_id # Null
                => /\ Len(scan[s].messages) <= Len(Mailbox(scan[s].user_id))
                   /\ \A k \in 1..Len(scan[s].messages) :
                         scan[s].messages[k] = Mailbox(scan[s].user_id)[k]
             /\ Cardinality(RowsBy(s)) <= BatchSize)
    /\ [][\A s \in Scans :
             /\ scan[s].pc \in LoopPcs /\ scan'[s].pc \in LoopPcs
                => scan'[s].i \in {scan[s].i, scan[s].i + 1}
             /\ \A r \in processed_emails' \ processed_emails :
                   r.id[1] = s
                   => /\ scan[s].i \in 1..Len(scan[s].messages)
                      /\ r.gmail_message_id = scan[s].messages[scan[s].i]
          ]_vars

\* an invocation that found 21 messages has ended with 20 rows
C26_Witness ==
    \E s \in Scans :
        /\ scan[s].pc = "done"
        /\ scan[s].result.total_emails = BatchSize + 1
        /\ Cardinality(RowsBy(s)) = BatchSize

-----------------------------------------------------------------------------
(* C27 *)

\* the step in which callback c sends its request to gmail-sync
Triggers(c) == ~callback[c].trigger.sent /\ callback'[c].trigger.sent

\* C27: when the callback sends its request to gmail-sync the user's
\* credential is in gmail_tokens with the tokens of this exchange and the
\* user's profile is marked connected; a callback that answered with an
\* error (a failed exchange, upsert or profile update) has sent no request;
\* the request says initial_sync, and the invocation that receives it
\* searches from one year before now.
C27_TriggerAfterBothWrites ==
    /\ [](\A c \in Callbacks :
             /\ callback[c].response.status = 500
                => ~callback[c].trigger.sent
             /\ callback[c].trigger.sent
                => callback[c].trigger.initial_sync)
    /\ [][/\ \A c \in Callbacks :
               Triggers(c)
               => LET u == callback[c].state IN
                  /\ u \in DOMAIN gmail_tokens'
                  /\ gmail_tokens'[u].access_token
                       = callback[c].tokens.access_token
                  /\ gmail_tokens'[u].refresh_token
                       = callback[c].tokens.refresh_token
                  /\ u \in DOMAIN profiles'
                  /\ profiles'[u].gmail_connected
          /\ \A s \in Scans :
               ~scan[s].query.built /\ scan'[s].query.built
               => /\ scan'[s].query.initial_sync
                  /\ scan'[s].query.after = DateStr(now - YearHours)
         ]_vars

\* a callback has stored the credential, marked the profile, sent the
\* request, and an invocation of gmail-sync has built its query from it,
\* while another callback ended with an error after its exchange succeeded
C27_Witness ==
    /\ \E c \in Callbacks :
          /\ callback[c].trigger.sent
          /\ callback[c].received
          /\ \E d \in Callbacks :
                /\ d # c
                /\ callback[d].response.status = 500
                /\ callback[d].tokens # NoTokens
    /\ \E s \in Scans : scan[s].query.built /\ scan[s].query.initial_sync

-----------------------------------------------------------------------------
(* C28 *)

\* C28: with invocations that do not overlap, document_count never exceeds
\* document_limit, and every step that increments it is taken by a
\* request that passed the limit check, at a count still below the limit.
C28_QuotaIsHardWhenAlone ==
    /\ [](\A u \in Users :
             profiles[u].document_count <= profiles[u].document_limit)
    /\ [][\A u \in Users :
             profiles'[u].document_count # profiles[u].document_count
             => /\ profiles'[u].document_count = profiles[u].document_count + 1
                /\ profiles[u].document_count < profiles[u].document_limit
                /\ \E s \in PassedCheck(u) : scan[s].pc = "increment"
         ]_vars

\* an invocation brought the count to the limit and its next document was
\* refused
C28_Witness ==
    \E s \in Scans :
        /\ scan[s].user_id # Null
        /\ profiles[scan[s].user_id].document_count
             = profiles[scan[s].user_id].document_limit
        /\ InvoicesIn(invoices, scan[s].user_id, "m1") # {}
        /\ scan[s].invoiceCount > 0
        /\ scan[s].classifyResult.error = "Document limit reached"

-----------------------------------------------------------------------------
(* C29 *)

\* invoice rows made from the requests of invocation s
InvoicesBy(s) == {inv \in invoices : inv.id[1] = s}

\* C29: the invoices_found of the summary an invocation answers with is
\* the number of invoice rows made from its requests.
C29_InvoicesFoundCountsRows ==
    \A s \in Scans :
        scan[s].pc = "done" /\ scan[s].result.status = "success"
        => scan[s].result.invoices_found = Cardinality(InvoicesBy(s))

-----------------------------------------------------------------------------
(* C30 *)

\* C30: a message whose row in processed_emails has status error has no
\* invoice row made from any of its attachments, and no increment of
\* document_count was made for it: the count of its user is the one the
\* user had before the message, one below the limit.
C30_ErrorMeansNothingMade ==
    \A r \in processed_emails :
        r.status = "error"
        => /\ InvoicesIn(invoices, r.user_id, r.gmail_message_id) = {}
           /\ profiles[r.user_id].document_count
                = DefaultDocumentLimit - 1

====
